---- MODULE Spec2Model ----
(***************************************************************************)
(* A model of nanoemoji.py: the assembly of a colour font from per-glyph   *)
(* painted layers.  The state is the UFO glyph set (glyph objects, the     *)
(* name -> glyph binding, the glyph order, the lib entries), the list of   *)
(* ColorGlyphs, the locals of the encoder that is running and the control  *)
(* position.  Each loop body of the source is one action.                  *)
(***************************************************************************)
EXTENDS Integers, Sequences, FiniteSets, TLC

VARIABLES
    pc,                 \* control position
    error,              \* "none", or the exception that ended the run
    color_glyphs,       \* Sequence[ColorGlyph] handed to the encoders
    objs,               \* the Glyph objects, by identity (index)
    ufo,                \* ufo: glyph name -> Glyph object
    glyphOrder,         \* ufo.glyphOrder
    lib,                \* ufo.lib: colour palettes and colour layers
    callee,             \* the generator function that was called
    colr_version,       \* first argument of _colr_ufo
    setitem_renames,    \* does ufo[name] = glyph set glyph.name to name?
    parent_glyph,       \* _glyf_ufo: parent_glyph of the current iteration
    glyphs,             \* encoder local: glyphs by reuse_key
    gi,                 \* encoder local: position in color_glyphs (1-based)
    li,                 \* encoder local: position in as_painted_layers()
    colors,             \* _colr_ufo local: the sorted palette colours
    glyph_colr_layers,  \* _colr_ufo local: layers of the current glyph
    color_layers,       \* _colr_ufo local: base glyph -> layer list
    created,            \* log of the _create_glyph calls
    ttfont,             \* the compiled TTFont: glyph order and SVG table
    reuse_groups,       \* _svg_ttfont local: the sorted reuse groups
    color_glyphs_by_name, \* _svg_ttfont local: {c.glyph_name: c}
    doc_list,           \* _svg_ttfont local: (document, min gid, max gid)
    id_updates,         \* _svg_ttfont local: gradient id and xml -> new id
    svg,                \* _svg_ttfont local: the document being built
    grp,                \* _svg_ttfont local: position in reuse_groups
    mi,                 \* _svg_ttfont local: position in the group
    inputs,             \* the InputGlyphs of the batch
    bi,                 \* _ensure_codepoints_will_have_glyphs: position in inputs
    all_codepoints,     \* _ensure_codepoints_will_have_glyphs local
    direct_mapped_codepoints, \* _ensure_codepoints_will_have_glyphs local
    need_blanks,        \* the codepoints the loop of line 558 has yet to visit
    glyph_names,        \* _ensure_codepoints_will_have_glyphs local
    rgi_sequences,      \* argument of _generate_fea
    sorted_sequences,   \* _generate_fea: sorted(rgi_sequences)
    fi,                 \* _generate_fea: position in sorted(rgi_sequences)
    rules,              \* _generate_fea local
    features,           \* ufo.features.text
    config,             \* ColorFontConfig: color_format, output_format
    written             \* what _write saved

ufoVars == <<objs, ufo, glyphOrder, lib>>
encVars == <<callee, colr_version, setitem_renames, parent_glyph, glyphs, gi, li,
             colors, glyph_colr_layers, color_layers, created>>
svgVars == <<ttfont, reuse_groups, color_glyphs_by_name, doc_list, id_updates,
             svg, grp, mi>>
blankVars == <<inputs, bi, all_codepoints, direct_mapped_codepoints, need_blanks,
               glyph_names>>
feaVars == <<rgi_sequences, sorted_sequences, fi, rules, features>>
runVars == <<config, written>>
vars == <<pc, error, color_glyphs, ufoVars, encVars, svgVars, blankVars, feaVars,
          runVars>>

-----------------------------------------------------------------------------
(* Bounds of the model *)

MaxGlyphs == 2
MaxLayers == 3
MaxSvgGlyphs == 3

(* Program constants *)

Upem == 1024

-----------------------------------------------------------------------------
(* Values *)

Identity == <<1, 0, 0, 1, 0, 0>>

\* a reuse transform that only moves the shape
Translation == <<1, 0, 0, 1, 3, 5>>

PathDescriptions == {"M0,0 L4,4 Z", "M1,1 L2,2 Z"}

\* Color is (rgb, alpha); alpha in percent
Red == <<1, 100>>
PaleBlue == <<2, 50>>
Blue == <<2, 100>>

\* Color.opaque
opaque(c) == <<c[1], 100>>

\* a Paint is the sequence of its colours: one for a solid, the stops of a gradient
Paints == {<<Blue>>, <<Red, PaleBlue>>}

\* PaintedLayer(path, paint, reuses)
PaintedLayers ==
    {l \in [d : PathDescriptions, reuses : {<<>>, <<Translation>>}, paint : Paints] :
        l.reuses = <<>> \/ l.d = "M0,0 L4,4 Z"}

RECURSIVE JoinCodepoints(_)
JoinCodepoints(cps) ==
    IF Len(cps) = 1 THEN ToString(cps[1])
    ELSE ToString(cps[1]) \o "_" \o JoinCodepoints(Tail(cps))

\* nanoemoji.glyph.glyph_name, for one codepoint or a sequence of them
glyph_name(cps) == "emoji_" \o JoinCodepoints(cps)

\* a Glyph as ufo.newGlyph(name) returns it
NewGlyph(name) ==
    [name |-> name, width |-> 0, unicodes |-> <<>>, contours |-> <<>>,
     components |-> <<>>]

Component(baseGlyph, transformation) ==
    [baseGlyph |-> baseGlyph, transformation |-> transformation]

\* ColorGlyph.transform_for_font_space: flip y, scale a 128 unit view box to the em
transform_for_font_space(color_glyph) ==
    LET scale == Upem \div 128 IN <<scale, 0, 0, -scale, 0, Upem>>

\* ColorGlyph.as_painted_layers
as_painted_layers(color_glyph) == color_glyph.picosvg.layers

\* _ufo: the glyph set holds .notdef and .space
UfoObjs == <<NewGlyph(".notdef"),
             [NewGlyph(".space") EXCEPT !.unicodes = <<32>>, !.width = Upem]>>
UfoGlyphOrder == <<".notdef", ".space">>

\* ColorGlyph.create(ufo, filename, glyph_id, codepoints, picosvg)
ColorGlyphCreate(glyph_id, codepoints, picosvg) ==
    [glyph_name |-> glyph_name(codepoints), glyph_id |-> glyph_id,
     codepoints |-> codepoints, picosvg |-> picosvg]

\* the Glyph that ColorGlyph.create adds to the ufo
BaseGlyph(codepoints) ==
    [NewGlyph(glyph_name(codepoints)) EXCEPT
        !.width = Upem,
        !.unicodes = IF Len(codepoints) = 1 THEN codepoints ELSE <<>>]

-----------------------------------------------------------------------------
(* Helpers of the encoders *)

\* _next_name(ufo, lambda i: prefix + str(i))
_next_name(u, prefix) ==
    LET i == CHOOSE i \in 0..Cardinality(DOMAIN u) :
                /\ (prefix \o ToString(i)) \notin DOMAIN u
                /\ \A j \in 0..(i - 1) : (prefix \o ToString(j)) \in DOMAIN u
    IN prefix \o ToString(i)

\* _draw(source, dest, svg_units_to_font_units)
_draw(source, dest, svg_units_to_font_units) ==
    [dest EXCEPT !.contours =
        Append(@, [d |-> source, transform |-> svg_units_to_font_units])]

\* _create_glyph: the new objs, ufo and glyphOrder, and the glyph it returns
_create_glyph(os, u, order, color_glyph, painted_layer) ==
    LET name == _next_name(u, color_glyph.glyph_name \o ".")
        glyph == Len(os) + 1
        u1 == (name :> glyph) @@ u
        svg_units_to_font_units == transform_for_font_space(color_glyph)
        reuses == painted_layer.reuses
    IN  IF reuses # <<>>
        THEN LET base_name == _next_name(u1, name \o ".component.")
                 base_glyph == _draw(painted_layer.d, NewGlyph(base_name),
                                     svg_units_to_font_units)
                 placed == [i \in 1..Len(reuses) |->
                     Component(base_name,
                         [reuses[i] EXCEPT
                             ![5] = @ * svg_units_to_font_units[1],
                             ![6] = @ * svg_units_to_font_units[4]])]
                 composite == [NewGlyph(name) EXCEPT
                     !.width = Upem,
                     !.components = <<Component(base_name, Identity)>> \o placed]
             IN  [objs |-> os \o <<composite, base_glyph>>,
                  ufo |-> (base_name :> (glyph + 1)) @@ u1,
                  glyphOrder |-> order \o <<name, base_name>>,
                  glyph |-> glyph]
        ELSE [objs |-> Append(os, _draw(painted_layer.d,
                                  [NewGlyph(name) EXCEPT !.width = Upem],
                                  svg_units_to_font_units)),
              ufo |-> u1,
              glyphOrder |-> Append(order, name),
              glyph |-> glyph]

\* _draw_glyph_extents
_draw_glyph_extents(glyph) ==
    [glyph EXCEPT !.contours =
        Append(@, [d |-> "M0,0 L" \o ToString(Upem) \o "," \o ToString(Upem),
                   transform |-> Identity])]

\* the key that includes the paint: a shape is then shared only under one fill
KeyWithPaint(painted_layer) ==
    <<painted_layer.d, painted_layer.reuses, painted_layer.paint>>

\* _inter_glyph_reuse_key
_inter_glyph_reuse_key(painted_layer) ==
    <<painted_layer.d, painted_layer.reuses>>

\* the parent glyph of the iteration that starts at position i
ParentAt(u, i) ==
    IF i <= Len(color_glyphs) THEN u[color_glyphs[i].glyph_name] ELSE 0

\* where the call of apply_ufo returns to: _generate_color_font line 583
AfterApplyUfo == "generate_fea"

Raise(exception) ==
    /\ pc' = "raised"
    /\ error' = exception

-----------------------------------------------------------------------------
(* Helpers of the layered-palette encoder *)

SeqRange(s) == {s[i] : i \in 1..Len(s)}

\* the order of Color tuples
ColorLess(a, b) == a[1] < b[1] \/ (a[1] = b[1] /\ a[2] < b[2])

RECURSIVE SortedColors(_)
\* sorted(set of colours)
SortedColors(S) ==
    IF S = {} THEN <<>>
    ELSE LET least == CHOOSE c \in S : \A o \in S \ {c} : ColorLess(c, o)
         IN  <<least>> \o SortedColors(S \ {least})

\* ColorGlyph.colors: the colours of the paints of all its painted layers
GlyphColors(color_glyph) ==
    UNION {SeqRange(as_painted_layers(color_glyph)[i].paint) :
              i \in 1..Len(as_painted_layers(color_glyph))}

\* _colr_ufo lines 333-338
PaletteColors(version, cgs) ==
    LET used == UNION {GlyphColors(cgs[g]) : g \in 1..Len(cgs)}
    IN  SortedColors({IF version = 0 THEN c ELSE opaque(c) : c \in used})

\* list.index, counting from 0
Index(seq, x) ==
    (CHOOSE i \in 1..Len(seq) : seq[i] = x /\ \A j \in 1..(i - 1) : seq[j] # x) - 1

\* Color.to_ufo_color
to_ufo_color(c) == [rgb |-> c[1], alpha |-> c[2]]

\* Paint.to_ufo_paint(palette): every stop by the palette index of its opaque colour
to_ufo_paint(paint, palette) ==
    [i \in 1..Len(paint) |->
        [paletteIndex |-> Index(palette, opaque(paint[i])), alpha |-> paint[i][2]]]

\* _colr_paint raises ValueError
ColrPaintRaises(version, paint, palette) ==
    \/ version \notin {0, 1}
    \/ version = 0 /\ paint[1] \notin SeqRange(palette)

\* the paint under the last colour of the descriptor
ColrPaintLastColor(version, paint, palette) ==
    IF version = 0 THEN Index(palette, paint[Len(paint)])
    ELSE to_ufo_paint(paint, palette)

\* _colr_paint, when it returns
_colr_paint(version, paint, palette) ==
    IF version = 0 THEN Index(palette, paint[1])
    ELSE to_ufo_paint(paint, palette)

\* a parent glyph is collapsed whenever it has a component at all
CollapseAny(n) == n >= 1

\* _glyf_ufo line 301: the condition of the collapse
ShouldCollapse(n) == n = 1

-----------------------------------------------------------------------------
(* _glyf_ufo *)

\* lines 279-281
GlyfStart ==
    /\ pc = "glyf_ufo"
    /\ glyphs' = <<>>
    /\ gi' = 1
    /\ li' = 1
    /\ parent_glyph' = ParentAt(ufo, 1)
    /\ pc' = "glyf"
    /\ UNCHANGED <<svgVars, blankVars, feaVars, runVars,
                   error, color_glyphs, ufoVars, callee, colr_version, setitem_renames,
                   colors, glyph_colr_layers, color_layers, created>>

\* lines 290-298: one painted layer of the current colour glyph
GlyfLayer ==
    /\ pc = "glyf"
    /\ gi <= Len(color_glyphs)
    /\ li <= Len(as_painted_layers(color_glyphs[gi]))
    /\ LET color_glyph == color_glyphs[gi]
           painted_layer == as_painted_layers(color_glyph)[li]
           reuse_key == _inter_glyph_reuse_key(painted_layer)
           fresh == reuse_key \notin DOMAIN glyphs
           made == _create_glyph(objs, ufo, glyphOrder, color_glyph, painted_layer)
           glyph == IF fresh THEN made.glyph ELSE glyphs[reuse_key]
           os == IF fresh THEN made.objs ELSE objs
       IN  /\ objs' = [os EXCEPT ![parent_glyph].components =
                          Append(@, Component(os[glyph].name, Identity))]
           /\ ufo' = IF fresh THEN made.ufo ELSE ufo
           /\ glyphOrder' = IF fresh THEN made.glyphOrder ELSE glyphOrder
           /\ glyphs' = IF fresh THEN (reuse_key :> glyph) @@ glyphs ELSE glyphs
           /\ created' = IF fresh
                         THEN Append(created, [d |-> painted_layer.d,
                                               reuses |-> painted_layer.reuses,
                                               gi |-> gi, li |-> li, glyph |-> glyph])
                         ELSE created
    /\ li' = li + 1
    /\ UNCHANGED <<svgVars, blankVars, feaVars, runVars,
                   pc, error, color_glyphs, lib, callee, colr_version, setitem_renames,
                   parent_glyph, gi, colors, glyph_colr_layers, color_layers>>

\* lines 300-302, and the step to the next colour glyph (line 289)
GlyfEndGlyph ==
    /\ pc = "glyf"
    /\ gi <= Len(color_glyphs)
    /\ li > Len(as_painted_layers(color_glyphs[gi]))
    /\ LET color_glyph == color_glyphs[gi]
           components == objs[parent_glyph].components
       IN  IF ShouldCollapse(Len(components))
           THEN LET child == ufo[components[1].baseGlyph]
                IN  /\ ufo' = [ufo EXCEPT ![color_glyph.glyph_name] = child]
                    /\ objs' = IF setitem_renames
                               THEN [objs EXCEPT ![child].name = color_glyph.glyph_name]
                               ELSE objs
           ELSE UNCHANGED <<objs, ufo>>
    /\ gi' = gi + 1
    /\ li' = 1
    /\ parent_glyph' = ParentAt(ufo', gi + 1)
    /\ UNCHANGED <<svgVars, blankVars, feaVars, runVars,
                   pc, error, color_glyphs, glyphOrder, lib, callee, colr_version,
                   setitem_renames, glyphs, colors, glyph_colr_layers,
                   color_layers, created>>

\* the loop of line 282 is exhausted
GlyfReturn ==
    /\ pc = "glyf"
    /\ gi > Len(color_glyphs)
    /\ pc' = AfterApplyUfo
    /\ UNCHANGED <<svgVars, blankVars, feaVars, runVars,
                   error, color_glyphs, ufoVars, encVars>>

-----------------------------------------------------------------------------
(* _colr_ufo *)

\* lines 333-348
ColrStart ==
    /\ pc = "colr_ufo"
    /\ colors' = PaletteColors(colr_version, color_glyphs)
    /\ lib' = [lib EXCEPT !.colorPalettes =
                  <<[i \in 1..Len(colors') |-> to_ufo_color(colors'[i])]>>]
    /\ color_layers' = <<>>
    /\ glyphs' = <<>>
    /\ glyph_colr_layers' = <<>>
    /\ gi' = 1
    /\ li' = 1
    /\ pc' = "colr"
    /\ UNCHANGED <<svgVars, blankVars, feaVars, runVars,
                   error, color_glyphs, objs, ufo, glyphOrder, callee, colr_version,
                   setitem_renames, parent_glyph, created>>

\* lines 362-372: one painted layer of the current colour glyph
ColrLayer ==
    /\ pc = "colr"
    /\ gi <= Len(color_glyphs)
    /\ li <= Len(as_painted_layers(color_glyphs[gi]))
    /\ LET color_glyph == color_glyphs[gi]
           painted_layer == as_painted_layers(color_glyph)[li]
           reuse_key == _inter_glyph_reuse_key(painted_layer)
           fresh == reuse_key \notin DOMAIN glyphs
           made == _create_glyph(objs, ufo, glyphOrder, color_glyph, painted_layer)
           glyph == IF fresh THEN made.glyph ELSE glyphs[reuse_key]
       IN  /\ objs' = IF fresh THEN made.objs ELSE objs
           /\ ufo' = IF fresh THEN made.ufo ELSE ufo
           /\ glyphOrder' = IF fresh THEN made.glyphOrder ELSE glyphOrder
           /\ glyphs' = IF fresh THEN (reuse_key :> glyph) @@ glyphs ELSE glyphs
           /\ created' = IF fresh
                         THEN Append(created, [d |-> painted_layer.d,
                                               reuses |-> painted_layer.reuses,
                                               gi |-> gi, li |-> li, glyph |-> glyph])
                         ELSE created
           /\ IF ColrPaintRaises(colr_version, painted_layer.paint, colors)
              THEN /\ Raise("ValueError")
                   /\ UNCHANGED <<glyph_colr_layers, li>>
              ELSE /\ glyph_colr_layers' =
                        Append(glyph_colr_layers,
                               <<objs'[glyph].name,
                                 _colr_paint(colr_version, painted_layer.paint, colors)>>)
                   /\ li' = li + 1
                   /\ UNCHANGED <<pc, error>>
    /\ UNCHANGED <<svgVars, blankVars, feaVars, runVars,
                   color_glyphs, lib, callee, colr_version, setitem_renames, parent_glyph,
                   gi, colors, color_layers>>

\* lines 374-376, and the step to the next colour glyph (line 359)
ColrEndGlyph ==
    /\ pc = "colr"
    /\ gi <= Len(color_glyphs)
    /\ li > Len(as_painted_layers(color_glyphs[gi]))
    /\ LET colr_glyph == ufo[color_glyphs[gi].glyph_name]
       IN  /\ objs' = [objs EXCEPT ![colr_glyph] = _draw_glyph_extents(@)]
           /\ color_layers' = (objs[colr_glyph].name :> glyph_colr_layers) @@ color_layers
    /\ glyph_colr_layers' = <<>>
    /\ gi' = gi + 1
    /\ li' = 1
    /\ UNCHANGED <<svgVars, blankVars, feaVars, runVars,
                   pc, error, color_glyphs, ufo, glyphOrder, lib, callee, colr_version,
                   setitem_renames, parent_glyph, glyphs, colors, created>>

\* line 378
ColrReturn ==
    /\ pc = "colr"
    /\ gi > Len(color_glyphs)
    /\ lib' = [lib EXCEPT !.colorLayers = <<color_layers>>]
    /\ pc' = AfterApplyUfo
    /\ UNCHANGED <<svgVars, blankVars, feaVars, runVars,
                   error, color_glyphs, objs, ufo, glyphOrder, encVars>>

-----------------------------------------------------------------------------
(* The encoders called on any list of colour glyphs *)

RECURSIVE GlyphLists(_, _, _)
\* the lists of at most n layer sequences that hold at most t layers together
GlyphLists(n, t, choices) ==
    IF n = 0 THEN {<<>>}
    ELSE {<<>>} \cup
         UNION {{<<ls>> \o rest : ls \in [1..k -> choices],
                                  rest \in GlyphLists(n - 1, t - k, choices)} :
                   k \in 0..t}

\* the ufo and the colour glyphs as _generate_color_font lines 569-579 leave them
GlyphSetOf(codepoints, picosvgs) ==
    [color_glyphs |-> [i \in 1..Len(picosvgs) |->
                          ColorGlyphCreate(Len(UfoGlyphOrder) + i - 1, codepoints[i],
                                           picosvgs[i])],
     objs |-> UfoObjs \o [i \in 1..Len(picosvgs) |-> BaseGlyph(codepoints[i])],
     ufo |-> [n \in SeqRange(UfoGlyphOrder)
                    \cup {glyph_name(codepoints[i]) : i \in 1..Len(picosvgs)} |->
                 IF n = ".notdef" THEN 1
                 ELSE IF n = ".space" THEN 2
                 ELSE Len(UfoObjs) + CHOOSE i \in 1..Len(picosvgs) :
                                        glyph_name(codepoints[i]) = n],
     glyphOrder |-> UfoGlyphOrder \o
                    [i \in 1..Len(picosvgs) |-> glyph_name(codepoints[i])]]

EmptyLib == [colorPalettes |-> <<>>, colorLayers |-> <<>>]

NoFont == [built |-> FALSE, glyphOrder |-> <<>>, SVG |-> <<>>]

EmptySvg == [defs |-> <<>>, groups |-> <<>>]

EmptyIdUpdates == [ids |-> <<>>, xml |-> <<>>]

NoConfig == [color_format |-> "", output_format |-> ""]

EncoderIdle ==
    /\ colr_version = 0
    /\ setitem_renames = FALSE
    /\ parent_glyph = 0
    /\ glyphs = <<>>
    /\ gi = 1
    /\ li = 1
    /\ colors = <<>>
    /\ glyph_colr_layers = <<>>
    /\ color_layers = <<>>
    /\ created = <<>>

SvgIdle ==
    /\ reuse_groups = <<>>
    /\ color_glyphs_by_name = <<>>
    /\ doc_list = <<>>
    /\ id_updates = EmptyIdUpdates
    /\ svg = EmptySvg
    /\ grp = 1
    /\ mi = 1

BlankIdle ==
    /\ inputs = <<>>
    /\ bi = 1
    /\ all_codepoints = {}
    /\ direct_mapped_codepoints = {}
    /\ need_blanks = {}
    /\ glyph_names = <<>>

FeaIdle ==
    /\ rgi_sequences = <<>>
    /\ sorted_sequences = <<>>
    /\ fi = 1
    /\ rules = <<>>
    /\ features = ""

InitEncoders ==
    /\ \E layerLists \in GlyphLists(MaxGlyphs, MaxLayers, PaintedLayers) :
          LET set == GlyphSetOf([i \in 1..Len(layerLists) |-> <<i>>],
                                [i \in 1..Len(layerLists) |->
                                    [layers |-> layerLists[i], defs |-> <<>>]])
          IN  /\ color_glyphs = set.color_glyphs
              /\ objs = set.objs
              /\ ufo = set.ufo
              /\ glyphOrder = set.glyphOrder
    /\ lib = EmptyLib
    /\ \E format \in {<<"glyf_ufo", 0, FALSE>>, <<"glyf_ufo", 0, TRUE>>,
                      <<"colr_ufo", 0, FALSE>>, <<"colr_ufo", 1, FALSE>>,
                      <<"colr_ufo", 2, FALSE>>} :
          /\ pc = format[1]
          /\ callee = "_" \o format[1]
          /\ colr_version = format[2]
          /\ setitem_renames = format[3]
    /\ error = "none"
    /\ parent_glyph = 0
    /\ glyphs = <<>>
    /\ gi = 1
    /\ li = 1
    /\ colors = <<>>
    /\ glyph_colr_layers = <<>>
    /\ color_layers = <<>>
    /\ created = <<>>
    /\ ttfont = NoFont
    /\ SvgIdle
    /\ BlankIdle
    /\ FeaIdle
    /\ config = NoConfig
    /\ written = "nothing"

NextEncoders ==
    \/ GlyfStart
    \/ GlyfLayer
    \/ GlyfEndGlyph
    \/ GlyfReturn
    \/ ColrStart
    \/ ColrLayer
    \/ ColrEndGlyph
    \/ ColrReturn

SpecEncoders == InitEncoders /\ [][NextEncoders]_vars

-----------------------------------------------------------------------------
(* Properties of the composite-outline and the layered-palette encoders *)

\* the reuse key of the data model: (path description, reuses)
ReuseKeyOf(painted_layer) == <<painted_layer.d, painted_layer.reuses>>

LayerAt(g, i) == as_painted_layers(color_glyphs[g])[i]

EncoderRunning == pc \in {"glyf", "colr", "raised", AfterApplyUfo}

\* the painted layers the running encoder has processed so far
Processed ==
    IF EncoderRunning
    THEN {<<g, i>> \in (1..Len(color_glyphs)) \X (1..MaxLayers + 1) :
             /\ i <= Len(as_painted_layers(color_glyphs[g]))
             /\ g < gi \/ (g = gi /\ i < li)}
    ELSE {}

\* the colour glyphs the running encoder has assembled
Assembled == IF EncoderRunning THEN {g \in 1..Len(color_glyphs) : g < gi} ELSE {}

\* the Glyph that ColorGlyph.create made for the colour glyph at position g
BaseObj(g) == color_glyphs[g].glyph_id + 1

\* the outline glyph that the entry for layer i of colour glyph g references
ReferencedOutline(g, i) ==
    IF callee = "_glyf_ufo"
    THEN ufo[objs[BaseObj(g)].components[i].baseGlyph]
    ELSE IF g < gi THEN ufo[color_layers[color_glyphs[g].glyph_name][i][1]]
         ELSE ufo[glyph_colr_layers[i][1]]

\* the _create_glyph call that materialised the outline for a reuse key
MaterialisedFor(key, glyph) ==
    \E a \in 1..Len(created) :
        /\ <<created[a].d, created[a].reuses>> = key
        /\ created[a].glyph = glyph

\* C1: over a whole run of _glyf_ufo or _colr_ufo an outline glyph is
\* materialised only for the first painted layer that presents a reuse key
\* (path description, reuses), every painted layer with that key references
\* that outline glyph, and layers with equal keys never reference two
\* different outline glyphs.
C1_OneOutlinePerReuseKey ==
    /\ \A a, b \in 1..Len(created) :
          a # b => <<created[a].d, created[a].reuses>> # <<created[b].d, created[b].reuses>>
    /\ \A a \in 1..Len(created) :
          /\ ReuseKeyOf(LayerAt(created[a].gi, created[a].li))
               = <<created[a].d, created[a].reuses>>
          /\ \A p \in Processed :
                ReuseKeyOf(LayerAt(p[1], p[2])) = <<created[a].d, created[a].reuses>>
                => \/ created[a].gi < p[1]
                   \/ created[a].gi = p[1] /\ created[a].li <= p[2]
    /\ \A p \in Processed :
          MaterialisedFor(ReuseKeyOf(LayerAt(p[1], p[2])), ReferencedOutline(p[1], p[2]))
    /\ \A p, q \in Processed :
          ReuseKeyOf(LayerAt(p[1], p[2])) = ReuseKeyOf(LayerAt(q[1], q[2]))
          => ReferencedOutline(p[1], p[2]) = ReferencedOutline(q[1], q[2])
    /\ \A g \in Assembled :
          (callee = "_glyf_ufo" /\ Len(as_painted_layers(color_glyphs[g])) = 1)
          => ufo[color_glyphs[g].glyph_name] = ReferencedOutline(g, 1)

\* a run has ended in which a key of the first colour glyph came back in the
\* second one, at another z-position and under another paint
C1_Witness ==
    /\ pc = AfterApplyUfo
    /\ Len(color_glyphs) = 2
    /\ Len(as_painted_layers(color_glyphs[1])) = 1
    /\ Len(as_painted_layers(color_glyphs[2])) = 2
    /\ ReuseKeyOf(LayerAt(1, 1)) = ReuseKeyOf(LayerAt(2, 2))
    /\ ReuseKeyOf(LayerAt(2, 1)) # ReuseKeyOf(LayerAt(2, 2))
    /\ LayerAt(1, 1).paint # LayerAt(2, 2).paint
    /\ LayerAt(1, 1).reuses # <<>>
    /\ Len(created) = 2

\* C4: after _glyf_ufo has assembled a colour glyph, a parent glyph with
\* exactly one component is replaced by the child outline glyph, and a parent
\* with two or more components keeps one component per painted layer, in
\* z-order, and is not replaced.
C4_CollapseSingleComponent ==
    callee = "_glyf_ufo" =>
        \A g \in Assembled :
            LET name == color_glyphs[g].glyph_name
                layers == as_painted_layers(color_glyphs[g])
                parent == objs[BaseObj(g)]
            IN  /\ Len(layers) = 1 =>
                      /\ ufo[name] # BaseObj(g)
                      /\ MaterialisedFor(ReuseKeyOf(layers[1]), ufo[name])
                      /\ ufo[name] = ufo[parent.components[1].baseGlyph]
                /\ Len(layers) >= 2 =>
                      /\ ufo[name] = BaseObj(g)
                      /\ Len(parent.components) = Len(layers)
                      /\ \A i \in 1..Len(layers) :
                            /\ MaterialisedFor(ReuseKeyOf(layers[i]),
                                               ufo[parent.components[i].baseGlyph])
                            /\ parent.components[i].transformation = Identity

\* _glyf_ufo has returned after a colour glyph of one painted layer and a
\* colour glyph of two
C4_Witness ==
    /\ callee = "_glyf_ufo"
    /\ pc = AfterApplyUfo
    /\ Len(color_glyphs) = 2
    /\ Len(as_painted_layers(color_glyphs[1])) = 2
    /\ Len(as_painted_layers(color_glyphs[2])) = 1
    /\ ReuseKeyOf(LayerAt(1, 1)) = ReuseKeyOf(LayerAt(2, 1))

\* C9: in _colr_ufo(0, ...) the palette is an ordered sequence without
\* duplicates that holds every colour used by any glyph, and the i-th entry
\* of a glyph's layer list carries a valid palette index whose colour is the
\* first colour of the paint of the i-th painted layer.
C9_PaletteIndexPerOccurrence ==
    (callee = "_colr_ufo" /\ colr_version = 0 /\ pc \in {"colr", AfterApplyUfo}) =>
        /\ \A i, j \in 1..Len(colors) : i < j => ColorLess(colors[i], colors[j])
        /\ \A g \in 1..Len(color_glyphs) :
              \A i \in 1..Len(as_painted_layers(color_glyphs[g])) :
                  SeqRange(LayerAt(g, i).paint) \subseteq SeqRange(colors)
        /\ lib.colorPalettes = <<[i \in 1..Len(colors) |-> to_ufo_color(colors[i])]>>
        /\ \A g \in Assembled :
              LET entries == color_layers[color_glyphs[g].glyph_name]
              IN  /\ Len(entries) = Len(as_painted_layers(color_glyphs[g]))
                  /\ \A i \in 1..Len(entries) :
                        /\ entries[i][2] \in 0..(Len(colors) - 1)
                        /\ colors[entries[i][2] + 1] = LayerAt(g, i).paint[1]
        /\ pc = AfterApplyUfo => lib.colorLayers = <<color_layers>>

\* _colr_ufo(0, ...) has returned after an outline was shared by a solid and
\* a gradient layer
C9_Witness ==
    /\ callee = "_colr_ufo"
    /\ colr_version = 0
    /\ pc = AfterApplyUfo
    /\ Len(color_glyphs) = 2
    /\ Len(as_painted_layers(color_glyphs[1])) = 1
    /\ Len(as_painted_layers(color_glyphs[2])) = 2
    /\ ReuseKeyOf(LayerAt(1, 1)) = ReuseKeyOf(LayerAt(2, 2))
    /\ Len(LayerAt(1, 1).paint) = 1
    /\ Len(LayerAt(2, 2).paint) = 2
    /\ Len(created) = 2

\* C10: _colr_ufo with a version other than 0 or 1 raises for every list of
\* colour glyphs and never completes normally.
C10_UnsupportedVersionRaises ==
    (callee = "_colr_ufo" /\ colr_version \notin {0, 1}) => pc # AfterApplyUfo

-----------------------------------------------------------------------------
(* Helpers of the embedded-document encoder *)

\* Affine2D.product(first, second): first, then second
product(first, second) ==
    <<first[1] * second[1] + first[2] * second[3],
      first[1] * second[2] + first[2] * second[4],
      first[3] * second[1] + first[4] * second[3],
      first[3] * second[2] + first[4] * second[4],
      second[1] * first[5] + second[3] * first[6] + second[5],
      second[2] * first[5] + second[4] * first[6] + second[6]>>

\* Affine2D.translate
translate(transform, tx, ty) == product(<<1, 0, 0, 1, tx, ty>>, transform)

\* Affine2D.gettranslate
gettranslate(transform) == <<transform[5], transform[6]>>

\* svg_meta.ntos
ntos(n) == ToString(n)

RECURSIVE SeqLess(_, _)
\* the order of tuples of integers
SeqLess(a, b) ==
    IF a = <<>> THEN b # <<>>
    ELSE IF b = <<>> THEN FALSE
    ELSE IF a[1] # b[1] THEN a[1] < b[1]
    ELSE SeqLess(Tail(a), Tail(b))

\* where the colour glyph named name stands in the list
PositionOf(cgs, name) == CHOOSE g \in 1..Len(cgs) : cgs[g].glyph_name = name

\* the order of glyph names: that of the codepoints they are made of
NameLess(cgs, a, b) ==
    SeqLess(cgs[PositionOf(cgs, a)].codepoints, cgs[PositionOf(cgs, b)].codepoints)

\* DisjointSet.make_set
make_set(sets, e) == IF \E s \in sets : e \in s THEN sets ELSE sets \cup {{e}}

\* DisjointSet.union
union(sets, a, b) ==
    LET sa == CHOOSE x \in sets : a \in x
        sb == CHOOSE x \in sets : b \in x
    IN  (sets \ {sa, sb}) \cup {sa \cup sb}

RECURSIVE SortedNames(_, _)
SortedNames(cgs, S) ==
    IF S = {} THEN <<>>
    ELSE LET least == CHOOSE n \in S : \A o \in S \ {n} : NameLess(cgs, n, o)
         IN  <<least>> \o SortedNames(cgs, S \ {least})

FirstPosition(cgs, group) ==
    CHOOSE g \in 1..Len(cgs) :
        /\ cgs[g].glyph_name \in group
        /\ \A h \in 1..(g - 1) : cgs[h].glyph_name \notin group

RECURSIVE SortedGroups(_, _)
\* DisjointSet.sorted: each group sorted, the groups by their first member's position
SortedGroups(cgs, sets) ==
    IF sets = {} THEN <<>>
    ELSE LET first == CHOOSE x \in sets :
                 \A o \in sets : FirstPosition(cgs, x) <= FirstPosition(cgs, o)
         IN  <<SortedNames(cgs, first)>> \o SortedGroups(cgs, sets \ {first})

RECURSIVE GroupsFrom(_, _, _, _, _)
\* _svg_glyph_groups lines 407-415, from layer i of the colour glyph at g on;
\* i = 0 is the make_set of line 408
GroupsFrom(cgs, g, i, owners, sets) ==
    IF g > Len(cgs) THEN sets
    ELSE LET name == cgs[g].glyph_name
             layers == as_painted_layers(cgs[g])
         IN  IF i = 0 THEN GroupsFrom(cgs, g, 1, owners, make_set(sets, name))
             ELSE IF i > Len(layers) THEN GroupsFrom(cgs, g + 1, 0, owners, sets)
             ELSE LET reuse_key == _inter_glyph_reuse_key(layers[i])
                  IN  IF reuse_key \notin DOMAIN owners
                      THEN GroupsFrom(cgs, g, i + 1, (reuse_key :> name) @@ owners, sets)
                      ELSE GroupsFrom(cgs, g, i + 1, owners,
                                      union(sets, name, owners[reuse_key]))

\* _svg_glyph_groups
_svg_glyph_groups(cgs) == SortedGroups(cgs, GroupsFrom(cgs, 1, 0, <<>>, {}))

RECURSIVE Flatten(_)
Flatten(groups) ==
    IF groups = <<>> THEN <<>> ELSE Head(groups) \o Flatten(Tail(groups))

\* the glyph order is rewritten and every glyph id is left as it was
UpdateGlyphOrderKeepIds(by_name, order, groups) ==
    LET n == Cardinality(DOMAIN by_name)
        glyph_order == IF n = 0 THEN <<>> ELSE SubSeq(order, 1, Len(order) - n)
    IN  [color_glyphs |-> by_name, glyphOrder |-> glyph_order \o Flatten(groups)]

\* _svg_update_glyph_order: the updated dict and the glyph order it sets
_svg_update_glyph_order(by_name, order, groups) ==
    LET n == Cardinality(DOMAIN by_name)
        glyph_order == IF n = 0 THEN <<>> ELSE SubSeq(order, 1, Len(order) - n)
        members == Flatten(groups)
        gid(name) == Len(glyph_order) + Index(members, name)
    IN  [color_glyphs |-> [name \in DOMAIN by_name |->
                              IF name \in SeqRange(members)
                              THEN [by_name[name] EXCEPT !.glyph_id = gid(name)]
                              ELSE by_name[name]],
         glyphOrder |-> glyph_order \o members]

RECURSIVE _add_unique_gradients(_, _, _, _)
\* _add_unique_gradients, from the gradient at position k of the glyph's defs on
_add_unique_gradients(updates, svg_defs, color_glyph, k) ==
    IF k > Len(color_glyph.picosvg.defs) THEN [id_updates |-> updates, defs |-> svg_defs]
    ELSE LET gradient == color_glyph.picosvg.defs[k]
             curr_id == gradient.id
             new_id == color_glyph.glyph_name \o "::" \o curr_id
             gradient_xml == gradient.xml
         IN  IF gradient_xml \in DOMAIN updates.xml
             THEN _add_unique_gradients(
                      [updates EXCEPT !.ids = (curr_id :> updates.xml[gradient_xml]) @@ @],
                      svg_defs, color_glyph, k + 1)
             ELSE _add_unique_gradients(
                      [ids |-> (curr_id :> new_id) @@ updates.ids,
                       xml |-> (gradient_xml :> new_id) @@ updates.xml],
                      Append(svg_defs, [id |-> new_id, xml |-> gradient_xml]),
                      color_glyph, k + 1)

\* to_element(painted_layer.path), its fill rewritten as in lines 447-451
PathElement(painted_layer, updates) ==
    LET fill == painted_layer.fill
        ref == IF fill.value \in DOMAIN updates.ids THEN updates.ids[fill.value]
               ELSE fill.value
    IN  [tag |-> "path",
         attrib |-> ("d" :> painted_layer.d) @@
                    ("fill" :> IF fill.kind = "url" THEN "url(#" \o ref \o ")"
                               ELSE fill.value)]

\* _ensure_has_id, for the element that has nth_child siblings before it
_ensure_has_id(el, parent_id, nth_child) ==
    IF "id" \in DOMAIN el.attrib THEN el
    ELSE [el EXCEPT !.attrib = ("id" :> (parent_id \o "::" \o ToString(nth_child))) @@ @]

\* lines 456-462: the <use> of one reuse
UseElement(el, reuse) ==
    LET t == gettranslate(reuse)
        href == ("href" :> ("#" \o el.attrib["id"]))
        x == IF t[1] # 0 THEN ("x" :> ntos(t[1])) @@ href ELSE href
        y == IF t[2] # 0 THEN ("y" :> ntos(t[2])) @@ x ELSE x
    IN  [tag |-> "use", attrib |-> y]

\* no reuse transform is ever refused
ReuseNeverRefused(reuse) == FALSE

\* lines 463-466: the reuse has more than a translation
ReuseUnsupported(reuse) ==
    LET t == gettranslate(reuse)
    IN  translate(reuse, -t[1], -t[2]) # Identity

RECURSIVE UseElements(_, _)
\* lines 454-466: the <use> elements appended until a reuse raises
UseElements(el, reuses) ==
    IF reuses = <<>> THEN <<>>
    ELSE <<UseElement(el, Head(reuses))>> \o
         (IF ReuseUnsupported(Head(reuses)) THEN <<>>
          ELSE UseElements(el, Tail(reuses)))

\* where the call of apply_ttfont returns to: _make_ttfont line 194, then _write
AfterApplyTtfont == "write"

-----------------------------------------------------------------------------
(* _svg_ttfont *)

\* lines 496-498
SvgGroups ==
    /\ pc = "svg_ttfont"
    /\ reuse_groups' = _svg_glyph_groups(color_glyphs)
    /\ color_glyphs_by_name' =
          [name \in {color_glyphs[g].glyph_name : g \in 1..Len(color_glyphs)} |->
              color_glyphs[CHOOSE g \in 1..Len(color_glyphs) :
                  /\ color_glyphs[g].glyph_name = name
                  /\ \A h \in (g + 1)..Len(color_glyphs) :
                        color_glyphs[h].glyph_name # name]]
    /\ pc' = "svg_update_glyph_order"
    /\ UNCHANGED <<error, color_glyphs, ufoVars, encVars, ttfont, doc_list,
                   id_updates, svg, grp, mi, blankVars, feaVars, runVars>>

\* lines 500-503
SvgUpdateGlyphOrder ==
    /\ pc = "svg_update_glyph_order"
    /\ LET updated == _svg_update_glyph_order(color_glyphs_by_name,
                                              ttfont.glyphOrder, reuse_groups)
       IN  /\ color_glyphs_by_name' = updated.color_glyphs
           /\ ttfont' = [ttfont EXCEPT !.glyphOrder = updated.glyphOrder]
    /\ doc_list' = <<>>
    /\ id_updates' = EmptyIdUpdates
    /\ grp' = 1
    /\ pc' = "svg_group"
    /\ UNCHANGED <<error, color_glyphs, ufoVars, encVars, reuse_groups, svg, mi,
                   blankVars, feaVars, runVars>>

\* lines 504-509: the document of the next reuse group
SvgGroupStart ==
    /\ pc = "svg_group"
    /\ grp <= Len(reuse_groups)
    /\ svg' = EmptySvg
    /\ mi' = 1
    /\ pc' = "svg_glyph"
    /\ UNCHANGED <<error, color_glyphs, ufoVars, encVars, ttfont, reuse_groups,
                   color_glyphs_by_name, doc_list, id_updates, grp, blankVars,
                   feaVars, runVars>>

\* lines 510-511 and 436-442: the gradients and the <g> of the next glyph
SvgGlyphStart ==
    /\ pc = "svg_glyph"
    /\ mi <= Len(reuse_groups[grp])
    /\ LET color_glyph == color_glyphs_by_name[reuse_groups[grp][mi]]
           added == _add_unique_gradients(id_updates, svg.defs, color_glyph, 1)
       IN  /\ id_updates' = added.id_updates
           /\ svg' = [defs |-> added.defs,
                      groups |-> Append(svg.groups,
                                        [id |-> color_glyph.glyph_name,
                                         children |-> <<>>])]
    /\ glyphs' = <<>>
    /\ li' = 1
    /\ pc' = "svg_layer"
    /\ UNCHANGED <<error, color_glyphs, ufoVars, callee, colr_version,
                   setitem_renames, parent_glyph, gi, colors, glyph_colr_layers,
                   color_layers, created, ttfont, reuse_groups,
                   color_glyphs_by_name, doc_list, grp, mi, blankVars, feaVars,
                   runVars>>

\* lines 443-472: one painted layer of the glyph
SvgLayer ==
    /\ pc = "svg_layer"
    /\ LET color_glyph == color_glyphs_by_name[reuse_groups[grp][mi]]
           layers == as_painted_layers(color_glyph)
           svg_g == svg.groups[Len(svg.groups)]
       IN  /\ li <= Len(layers)
           /\ LET painted_layer == layers[li]
                  reuse_key == _inter_glyph_reuse_key(painted_layer)
                  at == Len(svg_g.children) + 1
              IN  IF reuse_key \notin DOMAIN glyphs
                  THEN LET drawn == PathElement(painted_layer, id_updates)
                           el == IF painted_layer.reuses # <<>>
                                 THEN _ensure_has_id(drawn, svg_g.id, at - 1)
                                 ELSE drawn
                       IN  /\ svg' = [svg EXCEPT !.groups[Len(svg.groups)].children =
                                         @ \o <<el>> \o
                                         UseElements(el, painted_layer.reuses)]
                           /\ glyphs' = (reuse_key :> at) @@ glyphs
                           /\ IF \E r \in 1..Len(painted_layer.reuses) :
                                     ReuseUnsupported(painted_layer.reuses[r])
                              THEN Raise("NotImplementedError") /\ li' = li
                              ELSE li' = li + 1 /\ UNCHANGED <<pc, error>>
                  ELSE LET el == _ensure_has_id(svg_g.children[glyphs[reuse_key]],
                                                svg_g.id, glyphs[reuse_key] - 1)
                       IN  /\ svg' = [svg EXCEPT !.groups[Len(svg.groups)].children =
                                         Append([@ EXCEPT ![glyphs[reuse_key]] = el],
                                                [tag |-> "use",
                                                 attrib |-> ("href" :>
                                                     ("#" \o el.attrib["id"]))])]
                           /\ li' = li + 1
                           /\ UNCHANGED <<pc, error, glyphs>>
    /\ UNCHANGED <<color_glyphs, ufoVars, callee, colr_version, setitem_renames,
                   parent_glyph, gi, colors, glyph_colr_layers, color_layers,
                   created, ttfont, reuse_groups, color_glyphs_by_name, doc_list,
                   id_updates, grp, mi, blankVars, feaVars, runVars>>

\* _add_glyph_to_svg returns: on to the next glyph of the group
SvgGlyphEnd ==
    /\ pc = "svg_layer"
    /\ li > Len(as_painted_layers(color_glyphs_by_name[reuse_groups[grp][mi]]))
    /\ mi' = mi + 1
    /\ pc' = "svg_glyph"
    /\ UNCHANGED <<error, color_glyphs, ufoVars, encVars, ttfont, reuse_groups,
                   color_glyphs_by_name, doc_list, id_updates, svg, grp, blankVars,
                   feaVars, runVars>>

\* lines 515-516
SvgGroupEnd ==
    /\ pc = "svg_glyph"
    /\ mi > Len(reuse_groups[grp])
    /\ LET group == reuse_groups[grp]
           gids == {color_glyphs_by_name[group[k]].glyph_id : k \in 1..Len(group)}
           least == CHOOSE x \in gids : \A y \in gids : x <= y
           most == CHOOSE x \in gids : \A y \in gids : x >= y
       IN  doc_list' = Append(doc_list, <<svg, least, most>>)
    /\ grp' = grp + 1
    /\ pc' = "svg_group"
    /\ UNCHANGED <<error, color_glyphs, ufoVars, encVars, ttfont, reuse_groups,
                   color_glyphs_by_name, id_updates, svg, mi, blankVars, feaVars,
                   runVars>>

\* lines 518-521
SvgReturn ==
    /\ pc = "svg_group"
    /\ grp > Len(reuse_groups)
    /\ ttfont' = [ttfont EXCEPT !.SVG = <<[compressed |-> (config.color_format = "svgz"),
                                           docList |-> doc_list]>>]
    /\ pc' = AfterApplyTtfont
    /\ UNCHANGED <<error, color_glyphs, ufoVars, encVars, reuse_groups,
                   color_glyphs_by_name, doc_list, id_updates, svg, grp, mi,
                   blankVars, feaVars, runVars>>

-----------------------------------------------------------------------------
(* _svg_ttfont called on any list of colour glyphs *)

Fills == {[kind |-> "color", value |-> "red"], [kind |-> "url", value |-> "a"]}

\* layers without reuses, under a plain fill or a gradient
PlainLayers == [d : PathDescriptions, reuses : {<<>>}, fill : Fills]

\* translations, a rotation and a scale
Transforms ==
    {<<1, 0, 0, 1, 3, 5>>, <<1, 0, 0, 1, 0, 5>>, <<1, 0, 0, 1, -3, 0>>,
     <<0, 1, -1, 0, 3, 5>>, <<2, 0, 0, 2, 0, 0>>}

\* layers that are placed once or twice more
ReusedLayers ==
    [d : PathDescriptions,
     reuses : {<<t>> : t \in Transforms} \cup {<<t, u>> : t, u \in Transforms},
     fill : {[kind |-> "color", value |-> "red"]}]

\* the defs of the artwork: the gradient its fills name
DefsFor(layers) ==
    IF \E i \in 1..Len(layers) : layers[i].fill.kind = "url"
    THEN <<[id |-> "a", xml |-> "<linearGradient><stop red/><stop blue/>"]>>
    ELSE <<>>

InitSvg ==
    /\ \E layerLists \in GlyphLists(MaxSvgGlyphs, MaxLayers, PlainLayers)
                         \cup {<<ls>> : ls \in [1..1 -> ReusedLayers]
                                              \cup [1..2 -> ReusedLayers]} :
       \E reversed \in BOOLEAN :
          LET n == Len(layerLists)
              set == GlyphSetOf([i \in 1..n |-> IF reversed THEN <<n + 1 - i>> ELSE <<i>>],
                                [i \in 1..n |-> [layers |-> layerLists[i],
                                                 defs |-> DefsFor(layerLists[i])]])
          IN  /\ color_glyphs = set.color_glyphs
              /\ objs = set.objs
              /\ ufo = set.ufo
              /\ glyphOrder = set.glyphOrder
              /\ ttfont = [built |-> TRUE, glyphOrder |-> set.glyphOrder, SVG |-> <<>>]
    /\ lib = EmptyLib
    /\ pc = "svg_ttfont"
    /\ callee = "_svg_ttfont"
    /\ error = "none"
    /\ EncoderIdle
    /\ SvgIdle
    /\ BlankIdle
    /\ FeaIdle
    /\ config \in {[color_format |-> "svg", output_format |-> ".ttf"],
                   [color_format |-> "svgz", output_format |-> ".ttf"]}
    /\ written = "nothing"

NextSvg ==
    \/ SvgGroups
    \/ SvgUpdateGlyphOrder
    \/ SvgGroupStart
    \/ SvgGlyphStart
    \/ SvgLayer
    \/ SvgGlyphEnd
    \/ SvgGroupEnd
    \/ SvgReturn

SpecSvg == InitSvg /\ [][NextSvg]_vars

-----------------------------------------------------------------------------
(* Properties of the embedded-document encoder *)

\* _svg_update_glyph_order has run
SvgReassigned ==
    /\ callee = "_svg_ttfont"
    /\ pc \in {"svg_group", "svg_glyph", "svg_layer", "raised", AfterApplyTtfont}

\* the glyph ids of the members of the reuse group at k, after reassignment
GroupIds(k) ==
    {color_glyphs_by_name[reuse_groups[k][j]].glyph_id : j \in 1..Len(reuse_groups[k])}

Least(S) == CHOOSE x \in S : \A y \in S : x <= y

Most(S) == CHOOSE x \in S : \A y \in S : x >= y

\* C2: after _svg_update_glyph_order every colour glyph name is in exactly one
\* reuse group, the glyph ids of each group form a contiguous range, the
\* ranges of different groups do not overlap, and the [min, max] recorded for
\* each document is the range of its group.
C2_GroupsAreContiguousRanges ==
    SvgReassigned =>
        /\ \A g \in 1..Len(color_glyphs) :
              Cardinality({<<k, j>> \in (1..Len(reuse_groups)) \X (1..Len(color_glyphs)) :
                              /\ j <= Len(reuse_groups[k])
                              /\ reuse_groups[k][j] = color_glyphs[g].glyph_name}) = 1
        /\ \A k \in 1..Len(reuse_groups) :
              /\ reuse_groups[k] # <<>>
              /\ Cardinality(GroupIds(k)) = Len(reuse_groups[k])
              /\ GroupIds(k) = Least(GroupIds(k))..Most(GroupIds(k))
        /\ \A k, l \in 1..Len(reuse_groups) :
              k # l => GroupIds(k) \cap GroupIds(l) = {}
        /\ \A k \in 1..Len(doc_list) :
              /\ doc_list[k][2] = Least(GroupIds(k))
              /\ doc_list[k][3] = Most(GroupIds(k))
        /\ pc = AfterApplyTtfont =>
              /\ Len(doc_list) = Len(reuse_groups)
              /\ ttfont.SVG[1].docList = doc_list

\* _svg_ttfont has returned two documents, the first for the first and the
\* third colour glyph, which share a shape
C2_Witness ==
    /\ callee = "_svg_ttfont"
    /\ pc = AfterApplyTtfont
    /\ Len(color_glyphs) = 3
    /\ Len(reuse_groups) = 2
    /\ reuse_groups[1] = <<color_glyphs[1].glyph_name, color_glyphs[3].glyph_name>>
    /\ reuse_groups[2] = <<color_glyphs[2].glyph_name>>
    /\ Len(doc_list) = 2

\* C3: the glyph_id of every ColorGlyph is its index in the glyph order when
\* an encoder starts, and again when _svg_ttfont, which reorders the glyphs,
\* has returned: then it is the index of its name in the order written back.
C3_GlyphIdIsIndexInGlyphOrder ==
    /\ pc \in {"glyf_ufo", "colr_ufo"} =>
          \A g \in 1..Len(color_glyphs) :
              glyphOrder[color_glyphs[g].glyph_id + 1] = color_glyphs[g].glyph_name
    /\ (pc = "svg_ttfont" \/ (callee = "_svg_ttfont" /\ pc = AfterApplyTtfont)) =>
          \A g \in 1..Len(color_glyphs) :
              ttfont.glyphOrder[color_glyphs[g].glyph_id + 1] = color_glyphs[g].glyph_name

\* a reuse transform that is a translation and nothing else
PureTranslation(reuse) == SubSeq(reuse, 1, 4) = <<1, 0, 0, 1>>

\* the offset a <use> element carries; an absent x or y is 0
OffsetOf(use) ==
    <<IF "x" \in DOMAIN use.attrib THEN use.attrib["x"] ELSE "0",
      IF "y" \in DOMAIN use.attrib THEN use.attrib["y"] ELSE "0">>

\* the position of the first reuse that is no pure translation, or Len + 1
FirstRefused(reuses) ==
    CHOOSE r \in 1..(Len(reuses) + 1) :
        /\ r <= Len(reuses) => ~PureTranslation(reuses[r])
        /\ \A q \in 1..(r - 1) : PureTranslation(reuses[q])

-----------------------------------------------------------------------------
(* _ensure_codepoints_will_have_glyphs and the creation of the colour glyphs *)

MaxInputs == 2
MaxCodepoint == 3

\* the sequences of at most n elements of S
Lists(S, n) == UNION {[1..k -> S] : k \in 0..n}

\* those without a repeated element
DistinctLists(S, n) ==
    {s \in Lists(S, n) : \A i, j \in 1..Len(s) : s[i] = s[j] => i = j}

\* InputGlyph(filename, codepoints, picosvg)
InputGlyph(codepoints, picosvg) == [codepoints |-> codepoints, picosvg |-> picosvg]

\* _ufo lines 158-162: the names of the initial glyph set
UfoNames == (".notdef" :> 1) @@ (".space" :> 2)

\* every codepoint in use gets a blank
NeedBlanksAll(all, direct) == all

\* line 555
NeedBlanks(all, direct) == all \ direct

\* the codepoint behind the name of a blank glyph
CodepointOf(name) == CHOOSE c \in 0..9 : glyph_name(<<c>>) = name

RECURSIVE SortedGlyphNames(_)
\* sorted(glyph_names), line 564: the names are "emoji_" and one digit, so
\* their order as strings is the order of the digits
SortedGlyphNames(names) ==
    IF names = <<>> THEN <<>>
    ELSE LET m == CHOOSE i \in 1..Len(names) :
                      \A j \in 1..Len(names) :
                          CodepointOf(names[i]) <= CodepointOf(names[j])
         IN  <<names[m]>> \o
             SortedGlyphNames([k \in 1..(Len(names) - 1) |->
                                  IF k < m THEN names[k] ELSE names[k + 1]])

\* lines 550-553: one input of the first loop
BlankScan ==
    /\ pc = "ensure_codepoints"
    /\ bi <= Len(inputs)
    /\ LET codepoints == inputs[bi].codepoints
       IN  /\ direct_mapped_codepoints' =
                 IF Len(codepoints) = 1
                 THEN direct_mapped_codepoints \cup SeqRange(codepoints)
                 ELSE direct_mapped_codepoints
           /\ all_codepoints' = all_codepoints \cup SeqRange(codepoints)
    /\ bi' = bi + 1
    /\ UNCHANGED <<pc, error, color_glyphs, ufoVars, encVars, svgVars, inputs,
                   need_blanks, glyph_names, feaVars, runVars>>

\* lines 555-557
BlankNeed ==
    /\ pc = "ensure_codepoints"
    /\ bi > Len(inputs)
    /\ need_blanks' = NeedBlanks(all_codepoints, direct_mapped_codepoints)
    /\ glyph_names' = <<>>
    /\ pc' = "blanks"
    /\ UNCHANGED <<error, color_glyphs, ufoVars, encVars, svgVars, inputs, bi,
                   all_codepoints, direct_mapped_codepoints, feaVars, runVars>>

\* lines 558-562: the next codepoint of the set, in whatever order it iterates
BlankGlyph ==
    /\ pc = "blanks"
    /\ \E codepoint \in need_blanks :
          LET name == glyph_name(<<codepoint>>)
              glyph == [NewGlyph(name) EXCEPT !.unicodes = <<codepoint>>]
          IN  /\ objs' = Append(objs, glyph)
              /\ ufo' = (name :> (Len(objs) + 1)) @@ ufo
              /\ glyph_names' = Append(glyph_names, glyph.name)
              /\ need_blanks' = need_blanks \ {codepoint}
    /\ UNCHANGED <<pc, error, color_glyphs, glyphOrder, lib, encVars, svgVars,
                   inputs, bi, all_codepoints, direct_mapped_codepoints, feaVars,
                   runVars>>

\* line 564
BlankReturn ==
    /\ pc = "blanks"
    /\ need_blanks = {}
    /\ glyphOrder' = glyphOrder \o SortedGlyphNames(glyph_names)
    /\ pc' = "create_color_glyphs"
    /\ UNCHANGED <<error, color_glyphs, objs, ufo, lib, encVars, svgVars,
                   blankVars, feaVars, runVars>>

\* _generate_color_font lines 572-579
CreateColorGlyphs ==
    /\ pc = "create_color_glyphs"
    /\ LET base_gid == Len(glyphOrder)
           n == Len(inputs)
           made == [idx \in 1..n |->
                       ColorGlyphCreate(base_gid + idx - 1, inputs[idx].codepoints,
                                        inputs[idx].picosvg)]
           names == {made[idx].glyph_name : idx \in 1..n}
       IN  /\ color_glyphs' = made
           /\ objs' = objs \o [idx \in 1..n |-> BaseGlyph(inputs[idx].codepoints)]
           /\ ufo' = [name \in DOMAIN ufo \cup names |->
                         IF name \in names
                         THEN Len(objs) + CHOOSE idx \in 1..n :
                                 /\ made[idx].glyph_name = name
                                 /\ \A later \in (idx + 1)..n :
                                       made[later].glyph_name # name
                         ELSE ufo[name]]
           /\ glyphOrder' = glyphOrder \o [idx \in 1..n |-> made[idx].glyph_name]
           /\ IF \A idx \in 1..n :
                    made[idx].glyph_id = Index(glyphOrder', made[idx].glyph_name)
              THEN pc' = "apply_ufo" /\ UNCHANGED error
              ELSE Raise("AssertionError")
    /\ UNCHANGED <<lib, encVars, svgVars, blankVars, feaVars, runVars>>

\* the codepoint sequences of the inputs: one or two codepoints, and one of three
BlankSequences ==
    [1..1 -> 1..MaxCodepoint] \cup [1..2 -> 1..MaxCodepoint] \cup {<<1, 2, 3>>}

NoArtwork == [layers |-> <<>>, defs |-> <<>>]

\* any list of inputs; the codepoint sequences of a batch are unique
InitBlanks ==
    /\ \E seqs \in DistinctLists(BlankSequences, MaxInputs) :
          inputs = [i \in 1..Len(seqs) |-> InputGlyph(seqs[i], NoArtwork)]
    /\ pc = "ensure_codepoints"
    /\ error = "none"
    /\ color_glyphs = <<>>
    /\ objs = UfoObjs
    /\ ufo = UfoNames
    /\ glyphOrder = UfoGlyphOrder
    /\ lib = EmptyLib
    /\ callee = ""
    /\ EncoderIdle
    /\ ttfont = NoFont
    /\ SvgIdle
    /\ bi = 1
    /\ all_codepoints = {}
    /\ direct_mapped_codepoints = {}
    /\ need_blanks = {}
    /\ glyph_names = <<>>
    /\ FeaIdle
    /\ config = NoConfig
    /\ written = "nothing"

NextBlanks ==
    \/ BlankScan
    \/ BlankNeed
    \/ BlankGlyph
    \/ BlankReturn
    \/ CreateColorGlyphs

SpecBlanks == InitBlanks /\ [][NextBlanks]_vars

-----------------------------------------------------------------------------
(* Properties of the blank glyphs *)

\* the codepoints that appear in the codepoint sequence of some input
UsedCodepoints == UNION {SeqRange(inputs[i].codepoints) : i \in 1..Len(inputs)}

\* the codepoints that are the sole codepoint of some input
SoleCodepoints == {c \in UsedCodepoints : \E i \in 1..Len(inputs) : inputs[i].codepoints = <<c>>}

\* _ensure_codepoints_will_have_glyphs has returned
BlanksAdded == pc \in {"create_color_glyphs", "apply_ufo"}

\* the glyph set holds a glyph without outline that is mapped to codepoint c
HasBlank(c) ==
    \E name \in DOMAIN ufo :
       /\ name \in SeqRange(glyphOrder)
       /\ objs[ufo[name]].unicodes = <<c>>
       /\ objs[ufo[name]].contours = <<>>
       /\ objs[ufo[name]].components = <<>>
       /\ objs[ufo[name]].width = 0

\* some glyph of the glyph set is mapped to codepoint c
Resolves(c) ==
    \E name \in DOMAIN ufo :
       /\ name \in SeqRange(glyphOrder)
       /\ c \in SeqRange(objs[ufo[name]].unicodes)

\* C5: once _ensure_codepoints_will_have_glyphs has returned, every codepoint
\* that some input uses and no input has as its sole codepoint has a blank
\* glyph mapped to it, no blank glyph is mapped to the sole codepoint of an
\* input (the glyphs added are exactly one per codepoint in need); and once
\* the colour glyphs are added every codepoint in use resolves to a glyph.
C5_BlankGlyphsForSequenceOnlyCodepoints ==
    /\ BlanksAdded =>
          /\ \A c \in UsedCodepoints \ SoleCodepoints : HasBlank(c)
          /\ \A c \in SoleCodepoints : ~HasBlank(c)
    /\ pc = "create_color_glyphs" =>
          /\ Len(objs) = Len(UfoObjs) + Cardinality(UsedCodepoints \ SoleCodepoints)
          /\ Len(glyphOrder) = Len(objs)
    /\ pc = "apply_ufo" => \A c \in UsedCodepoints : Resolves(c)

\* the batch of the specification's example: (1), (1, 2, 3); 2 and 3 get blanks
C5_Witness ==
    /\ pc = "apply_ufo"
    /\ Len(inputs) = 2
    /\ inputs[1].codepoints = <<1>>
    /\ inputs[2].codepoints = <<1, 2, 3>>
    /\ glyphOrder = <<".notdef", ".space", "emoji_2", "emoji_3", "emoji_1",
                      "emoji_1_2_3">>
    /\ objs[ufo["emoji_2"]].unicodes = <<2>>
    /\ objs[ufo["emoji_1"]].width = Upem

-----------------------------------------------------------------------------
(* _generate_fea *)

MaxPairs == 3

RECURSIVE JoinWith(_, _)
\* sep.join(strings)
JoinWith(strings, sep) ==
    IF strings = <<>> THEN ""
    ELSE IF Len(strings) = 1 THEN strings[1]
    ELSE strings[1] \o sep \o JoinWith(Tail(strings), sep)

\* the target glyph names of the model, in their order as strings
TargetOrder == <<"emoji_1_2", "emoji_2_1", "g1">>

\* the order of two glyph names as strings
TargetLess(a, b) ==
    /\ a # b
    /\ Index(TargetOrder, a) < Index(TargetOrder, b)

\* the order of (rgi, target) tuples
PairLess(a, b) ==
    \/ SeqLess(a[1], b[1])
    \/ a[1] = b[1] /\ TargetLess(a[2], b[2])

\* the pairs are visited in the order of the list
UnsortedSequences(pairs) == pairs

RECURSIVE SortedSequences(_)
\* sorted(rgi_sequences), line 531
SortedSequences(pairs) ==
    IF pairs = <<>> THEN <<>>
    ELSE LET m == CHOOSE i \in 1..Len(pairs) :
                      \A j \in 1..Len(pairs) : ~PairLess(pairs[j], pairs[i])
         IN  <<pairs[m]>> \o
             SortedSequences([k \in 1..(Len(pairs) - 1) |->
                                 IF k < m THEN pairs[k] ELSE pairs[k + 1]])

\* lines 534-535
SubstitutionRule(rgi, target) ==
    LET names == [i \in 1..Len(rgi) |-> glyph_name(<<rgi[i]>>)]
    IN  "  sub " \o JoinWith(names, " ") \o " by " \o target \o ";"

\* lines 526-531
FeaStart ==
    /\ pc = "fea"
    /\ rules' = <<"languagesystem DFLT dflt;", "languagesystem latn dflt;",
                  "feature rlig {">>
    /\ sorted_sequences' = SortedSequences(rgi_sequences)
    /\ fi' = 1
    /\ pc' = "fea_rules"
    /\ UNCHANGED <<error, color_glyphs, ufoVars, encVars, svgVars, blankVars,
                   rgi_sequences, features, runVars>>

\* lines 531-535: one pair
FeaItem ==
    /\ pc = "fea_rules"
    /\ fi <= Len(sorted_sequences)
    /\ LET rgi == sorted_sequences[fi][1]
           target == sorted_sequences[fi][2]
       IN  rules' = IF Len(rgi) = 1 THEN rules
                    ELSE Append(rules, SubstitutionRule(rgi, target))
    /\ fi' = fi + 1
    /\ UNCHANGED <<pc, error, color_glyphs, ufoVars, encVars, svgVars, blankVars,
                   rgi_sequences, sorted_sequences, features, runVars>>

\* lines 537-538, and the assignment of line 583
FeaReturn ==
    /\ pc = "fea_rules"
    /\ fi > Len(sorted_sequences)
    /\ rules' = Append(rules, "} rlig;")
    /\ features' = JoinWith(rules', "\n")
    /\ pc' = "make_ttfont"
    /\ UNCHANGED <<error, color_glyphs, ufoVars, encVars, svgVars, blankVars,
                   rgi_sequences, sorted_sequences, fi, runVars>>

\* codepoint sequences of one, two and three codepoints
FeaSequences == {<<1>>, <<2>>, <<1, 2>>, <<2, 1>>, <<1, 2, 3>>}

FeaTargets == {"emoji_1_2", "g1"}

\* any list of (codepoint sequence, target glyph name) pairs
InitFea ==
    /\ rgi_sequences \in Lists(FeaSequences \X FeaTargets, MaxPairs)
    /\ pc = "fea"
    /\ error = "none"
    /\ color_glyphs = <<>>
    /\ objs = UfoObjs
    /\ ufo = UfoNames
    /\ glyphOrder = UfoGlyphOrder
    /\ lib = EmptyLib
    /\ callee = ""
    /\ EncoderIdle
    /\ ttfont = NoFont
    /\ SvgIdle
    /\ BlankIdle
    /\ sorted_sequences = <<>>
    /\ fi = 1
    /\ rules = <<>>
    /\ features = ""
    /\ config = NoConfig
    /\ written = "nothing"

NextFea ==
    \/ FeaStart
    \/ FeaItem
    \/ FeaReturn

SpecFea == InitFea /\ [][NextFea]_vars

-----------------------------------------------------------------------------
(* Properties of the substitution rules *)

\* the rules between "feature rlig {" and "} rlig;"
Substitutions == SubSeq(rules, 4, Len(rules) - 1)

\* the pairs whose sequence has more than one codepoint
Ligatures == {i \in 1..Len(rgi_sequences) : Len(rgi_sequences[i][1]) > 1}

RECURSIVE GlyphsOf(_)
\* the glyphs of the codepoints, in order, separated by a space
GlyphsOf(rgi) ==
    IF Len(rgi) = 1 THEN "emoji_" \o ToString(rgi[1])
    ELSE GlyphsOf(SubSeq(rgi, 1, Len(rgi) - 1)) \o " emoji_" \o ToString(rgi[Len(rgi)])

\* the rule that maps the glyphs of the sequence to the target
RuleOf(pair) == "  sub " \o GlyphsOf(pair[1]) \o " by " \o pair[2] \o ";"

\* C6: when _generate_fea returns there is exactly one substitution rule per
\* pair whose sequence has more than one codepoint, from the glyphs of its
\* codepoints in order to its target; no rule for a pair of one codepoint; and
\* the rules stand in the sorted order of the codepoint sequences, whatever the
\* order of the list.
C6_OneRulePerLigatureInSortedOrder ==
    pc = "make_ttfont" =>
       /\ Len(Substitutions) = Cardinality(Ligatures)
       /\ \A i \in Ligatures :
             Cardinality({k \in 1..Len(Substitutions) :
                             Substitutions[k] = RuleOf(rgi_sequences[i])})
             = Cardinality({j \in Ligatures : rgi_sequences[j] = rgi_sequences[i]})
       /\ \A i \in 1..Len(rgi_sequences) :
             Len(rgi_sequences[i][1]) = 1 =>
                 RuleOf(rgi_sequences[i]) \notin SeqRange(Substitutions)
       /\ \A k, l \in 1..Len(Substitutions) : \A i, j \in Ligatures :
             (/\ k < l
              /\ Substitutions[k] = RuleOf(rgi_sequences[i])
              /\ Substitutions[l] = RuleOf(rgi_sequences[j]))
             => ~SeqLess(rgi_sequences[j][1], rgi_sequences[i][1])
       /\ features = JoinWith(rules, "\n")

\* a list out of order with a single codepoint in it: (2 1), (1), (1 2 3)
C6_Witness ==
    /\ pc = "make_ttfont"
    /\ rgi_sequences = <<<<<<2, 1>>, "g1">>, <<<<1>>, "g1">>, <<<<1, 2, 3>>, "emoji_1_2">>>>
    /\ Substitutions = <<"  sub emoji_1 emoji_2 emoji_3 by emoji_1_2;",
                         "  sub emoji_2 emoji_1 by g1;">>

-----------------------------------------------------------------------------
(* _run, _generate_color_font, _make_ttfont and _write *)

\* _COLOR_FORMAT_GENERATORS, lines 88-100
ColorFormats == {"glyf", "colr_0", "colr_1", "svg", "svgz", "cbdt", "sbix"}

\* os.path.splitext(FLAGS.output_file)[1] of some destinations
OutputFormats == {".ufo", ".ttf", ".otf", ".woff"}

\* every colour format has a generator
NothingUnimplemented(color_format) == FALSE

\* the formats whose generators are _not_impl, lines 94-99
NotImplemented(color_format) == color_format \in {"cbdt", "sbix"}

\* _run lines 604-609
Run ==
    /\ pc = "run"
    /\ IF inputs = <<>>
       THEN Raise("SystemExit")
       ELSE pc' = "generate_color_font" /\ UNCHANGED error
    /\ UNCHANGED <<color_glyphs, ufoVars, encVars, svgVars, blankVars, feaVars,
                   runVars>>

\* _generate_color_font line 569: _ufo
Ufo ==
    /\ pc = "generate_color_font"
    /\ objs' = UfoObjs
    /\ ufo' = UfoNames
    /\ glyphOrder' = UfoGlyphOrder
    /\ lib' = EmptyLib
    /\ pc' = "ensure_codepoints"
    /\ UNCHANGED <<error, color_glyphs, encVars, svgVars, blankVars, feaVars,
                   runVars>>

\* _generate_color_font line 581: apply_ufo of the generator of the format
ApplyUfo ==
    /\ pc = "apply_ufo"
    /\ LET color_format == config.color_format
       IN  IF NotImplemented(color_format)
           THEN /\ Raise("NotImplementedError")
                /\ UNCHANGED <<callee, colr_version>>
           ELSE /\ pc' = IF color_format = "glyf" THEN "glyf_ufo"
                         ELSE IF color_format \in {"colr_0", "colr_1"} THEN "colr_ufo"
                         ELSE AfterApplyUfo
                /\ callee' = IF color_format = "glyf" THEN "_glyf_ufo"
                             ELSE IF color_format \in {"colr_0", "colr_1"}
                             THEN "_colr_ufo"
                             ELSE callee
                /\ colr_version' = IF color_format = "colr_1" THEN 1 ELSE 0
                /\ UNCHANGED error
    /\ UNCHANGED <<color_glyphs, ufoVars, setitem_renames, parent_glyph, glyphs, gi,
                   li, colors, glyph_colr_layers, color_layers, created, svgVars,
                   blankVars, feaVars, runVars>>

\* _generate_color_font lines 583-585: the argument of _generate_fea
CallGenerateFea ==
    /\ pc = "generate_fea"
    /\ rgi_sequences' = [g \in 1..Len(color_glyphs) |->
                            <<color_glyphs[g].codepoints, color_glyphs[g].glyph_name>>]
    /\ pc' = "fea"
    /\ UNCHANGED <<error, color_glyphs, ufoVars, encVars, svgVars, blankVars,
                   sorted_sequences, fi, rules, features, runVars>>

\* _make_ttfont lines 171-187
MakeTtfont ==
    /\ pc = "make_ttfont"
    /\ IF config.output_format = ".ufo"
       THEN pc' = "write" /\ UNCHANGED <<error, ttfont>>
       ELSE IF config.output_format \in {".ttf", ".otf"}
       THEN /\ ttfont' = [built |-> TRUE, glyphOrder |-> glyphOrder, SVG |-> <<>>]
            /\ pc' = "apply_ttfont"
            /\ UNCHANGED error
       ELSE Raise("ValueError") /\ UNCHANGED ttfont
    /\ UNCHANGED <<color_glyphs, ufoVars, encVars, reuse_groups, color_glyphs_by_name,
                   doc_list, id_updates, svg, grp, mi, blankVars, feaVars, runVars>>

\* _make_ttfont lines 190-192: apply_ttfont of the generator of the format
ApplyTtfont ==
    /\ pc = "apply_ttfont"
    /\ LET color_format == config.color_format
       IN  IF NotImplemented(color_format)
           THEN Raise("NotImplementedError") /\ UNCHANGED callee
           ELSE /\ pc' = IF color_format \in {"svg", "svgz"} THEN "svg_ttfont"
                         ELSE AfterApplyTtfont
                /\ callee' = IF color_format \in {"svg", "svgz"} THEN "_svg_ttfont"
                             ELSE callee
                /\ UNCHANGED error
    /\ UNCHANGED <<color_glyphs, ufoVars, colr_version, setitem_renames, parent_glyph,
                   glyphs, gi, li, colors, glyph_colr_layers, color_layers, created,
                   svgVars, blankVars, feaVars, runVars>>

\* _write, lines 197-203, called at _run line 611
Write ==
    /\ pc = "write"
    /\ written' = IF config.output_format = ".ufo" THEN "ufo" ELSE "ttfont"
    /\ pc' = "done"
    /\ UNCHANGED <<error, color_glyphs, ufoVars, encVars, svgVars, blankVars, feaVars,
                   config>>

\* artwork of one or two layers: plain, with a gradient, with a rotated reuse
RunArtworks ==
    LET plain == [d |-> "M0,0 L4,4 Z", reuses |-> <<>>, paint |-> <<Blue>>,
                  fill |-> [kind |-> "color", value |-> "red"]]
        shaded == [d |-> "M1,1 L2,2 Z", reuses |-> <<>>, paint |-> <<Red, PaleBlue>>,
                   fill |-> [kind |-> "url", value |-> "a"]]
        turned == [plain EXCEPT !.reuses = <<<<0, 1, -1, 0, 3, 5>>>>]
    IN  {<<plain>>, <<shaded, plain>>, <<turned>>}

RunSequences == {<<1>>, <<1, 2>>, <<2, 3>>}

\* the InputGlyphs that _inputs prepared: any list of distinct codepoint
\* sequences, the empty one too; the first input has any of the artworks, the
\* others one plain layer of the same shape
RunInputs ==
    {[i \in 1..Len(seqs) |->
         LET layers == IF i = 1 THEN first ELSE <<first[Len(first)]>>
         IN  InputGlyph(seqs[i], [layers |-> layers, defs |-> DefsFor(layers)])] :
        seqs \in DistinctLists(RunSequences, MaxInputs), first \in RunArtworks}

InitRun ==
    /\ inputs \in RunInputs
    /\ config \in [color_format : ColorFormats, output_format : OutputFormats]
    /\ setitem_renames \in (IF config.color_format = "glyf" THEN BOOLEAN ELSE {FALSE})
    /\ pc = "run"
    /\ error = "none"
    /\ color_glyphs = <<>>
    /\ objs = <<>>
    /\ ufo = <<>>
    /\ glyphOrder = <<>>
    /\ lib = EmptyLib
    /\ callee = ""
    /\ colr_version = 0
    /\ parent_glyph = 0
    /\ glyphs = <<>>
    /\ gi = 1
    /\ li = 1
    /\ colors = <<>>
    /\ glyph_colr_layers = <<>>
    /\ color_layers = <<>>
    /\ created = <<>>
    /\ ttfont = NoFont
    /\ SvgIdle
    /\ bi = 1
    /\ all_codepoints = {}
    /\ direct_mapped_codepoints = {}
    /\ need_blanks = {}
    /\ glyph_names = <<>>
    /\ FeaIdle
    /\ written = "nothing"

NextRun ==
    \/ Run
    \/ Ufo
    \/ BlankScan
    \/ BlankNeed
    \/ BlankGlyph
    \/ BlankReturn
    \/ CreateColorGlyphs
    \/ ApplyUfo
    \/ GlyfStart
    \/ GlyfLayer
    \/ GlyfEndGlyph
    \/ GlyfReturn
    \/ ColrStart
    \/ ColrLayer
    \/ ColrEndGlyph
    \/ ColrReturn
    \/ CallGenerateFea
    \/ FeaStart
    \/ FeaItem
    \/ FeaReturn
    \/ MakeTtfont
    \/ ApplyTtfont
    \/ SvgGroups
    \/ SvgUpdateGlyphOrder
    \/ SvgGroupStart
    \/ SvgGlyphStart
    \/ SvgLayer
    \/ SvgGlyphEnd
    \/ SvgGroupEnd
    \/ SvgReturn
    \/ Write

SpecRun == InitRun /\ [][NextRun]_vars

\* the batch is one synchronous pass: a step that can be taken is taken
FairSpecRun == SpecRun /\ WF_vars(NextRun)

-----------------------------------------------------------------------------
(* Properties of the batch *)

\* the run is over: _run returned or an exception left it
Ended == pc \in {"done", "raised"}

\* a bitmap colour format is selected
Bitmap == config.color_format \in {"cbdt", "sbix"}

\* a run in which an error is raised never reaches _write
NoOutputAfterError == error # "none" => (written = "nothing" /\ pc = "raised")

\* nothing is written but by _write at the end of a run without error
WrittenOnlyAtEnd == written # "nothing" => (pc = "done" /\ error = "none")

-----------------------------------------------------------------------------
(* Properties of the documents of the embedded-document encoder *)

\* the positions of the <path> elements under the <g> at g of a document
PathsOfGlyph(doc, g) ==
    {c \in 1..Len(doc.groups[g].children) : doc.groups[g].children[c].tag = "path"}

\* the <path> elements of a document, by <g> and position
DrawnPaths(doc) ==
    UNION {{<<g, c>> : c \in PathsOfGlyph(doc, g)} : g \in 1..Len(doc.groups)}

\* the reuse keys of the painted layers of a colour glyph
GlyphKeys(color_glyph) ==
    {ReuseKeyOf(as_painted_layers(color_glyph)[i]) :
        i \in 1..Len(as_painted_layers(color_glyph))}

\* the reuse keys of the painted layers of the glyphs of the reuse group at k
GroupKeys(k) ==
    UNION {GlyphKeys(color_glyphs_by_name[reuse_groups[k][j]]) :
              j \in 1..Len(reuse_groups[k])}

\* within one glyph of a document the geometry of a reuse key is drawn once
DrawnOncePerGlyph ==
    SvgReassigned =>
        \A k \in 1..Len(doc_list) : \A g \in 1..Len(doc_list[k][1].groups) :
            Cardinality(PathsOfGlyph(doc_list[k][1], g))
            = Cardinality(GlyphKeys(color_glyphs_by_name[reuse_groups[k][g]]))

\* C11: in every document the geometry of each reuse key is drawn at most
\* once: the document of a reuse group holds no more <path> elements than its
\* glyphs have reuse keys, a key emitted earlier in the document, in the same
\* glyph or in an earlier glyph of the group, being referenced by a <use>.
C11_GeometryDrawnOncePerDocument ==
    SvgReassigned =>
        \A k \in 1..Len(doc_list) :
            Cardinality(DrawnPaths(doc_list[k][1])) <= Cardinality(GroupKeys(k))

\* the fill attributes that are colours, not references to a definition
ColorValues == {f.value : f \in {x \in Fills : x.kind = "color"}}

\* the gradient is present exactly once, up to its id, in the defs of the document
PresentOnce(doc, gradient) ==
    Cardinality({i \in 1..Len(doc.defs) : doc.defs[i].xml = gradient.xml}) = 1

\* the fill of the element is a colour or names a definition of the document
FillResolves(doc, el) ==
    \/ el.attrib["fill"] \in ColorValues
    \/ \E i \in 1..Len(doc.defs) :
          el.attrib["fill"] = "url(#" \o doc.defs[i].id \o ")"

\* the document at k has the gradients of its glyphs once each, and the fill
\* references of its drawn elements name definitions of its own
GradientsComplete(k) ==
    LET doc == doc_list[k][1]
    IN  /\ \A j \in 1..Len(reuse_groups[k]) :
              LET defs == color_glyphs_by_name[reuse_groups[k][j]].picosvg.defs
              IN  \A d \in 1..Len(defs) : PresentOnce(doc, defs[d])
        /\ \A p \in DrawnPaths(doc) :
              FillResolves(doc, doc.groups[p[1]].children[p[2]])

\* the first document built has its gradients
FirstDocumentGradients ==
    (SvgReassigned /\ Len(doc_list) >= 1) => GradientsComplete(1)

\* C12: in every document that _svg_ttfont built, each gradient definition of
\* a glyph of its group is present exactly once, up to structural equality, in
\* the defs of that document, and every rewritten fill reference of a drawn
\* element names a definition of the same document, also when an equal
\* gradient was copied into the document of an earlier group.
C12_GradientsOncePerDocument ==
    SvgReassigned => \A k \in 1..Len(doc_list) : GradientsComplete(k)

====
